---- MODULE Spec2Model ----
(***************************************************************************)
(* Library synchronisation pipeline of ongaku-server (src/src/scanner.rs): *)
(* the orchestrator scan_music_library, the two walkers scan_dir_optimized *)
(* and scan_dir, the extraction workers they spawn, the bounded channel,   *)
(* the batch writer and the store behind upsert_tracks.                    *)
(***************************************************************************)
EXTENDS Integers, Sequences, FiniteSets, TLC

\* ------------------------------------------------------------------ bounds
\* Number of candidate paths that may exist under the music root.
NumPaths == 3
\* Permits of the semaphore (Semaphore::new(50) in the source, scaled down).
Ceiling == 2
\* Capacity of the output channel (mpsc::channel(2000), scaled down).
ChanCap == 1
\* Largest ScanConfig.batch_size a run is started with.
MaxBatch == 2
\* Largest ScanConfig.path_batch_size a run is started with.
MaxWidth == 2
\* Largest file timestamp.
MaxTime == 2
\* Number of sync runs started one after the other.
MaxRuns == 2
\* Number of timestamp changes the filesystem undergoes.
MaxFsChanges == 1
\* Entries of the directory tree a walk is run on.
MaxNodes == 3
\* Longest tag value, and longest range specifier, read.
MaxStr == 4
\* Largest size of a file served.
MaxSize == 5

\* chrono::DateTime::from(SystemTime::UNIX_EPOCH)
Epoch == 0

AllPaths == 1..NumPaths
\* The files of the two-run scenario: all but the last path.
IncrPaths == 1..(NumPaths - 1)
Times == Epoch..MaxTime
\* Timestamps of the files that exist before the first run.
InitTimes == Epoch..(MaxTime - 1)

\* ------------------------------------------------------------------ store schema
\* Columns of the track table (entity::track / the migration).
Columns ==
    {"id", "path", "extension", "title", "artist", "album", "disc_number",
     "track_number", "year", "genre", "album_artist", "publisher",
     "catalog_number", "duration_seconds", "audio_bitrate", "overall_bitrate",
     "sample_rate", "bit_depth", "channels", "tags", "created", "modified"}

\* Columns an ActiveModel built by read_tags sets (id is NotSet).
DraftColumns == Columns \ {"id"}

\* The update list as it would be if it named the creation timestamp too.
UpdateColumnsWithCreated ==
    {"extension", "title", "artist", "album", "disc_number", "track_number",
     "year", "genre", "album_artist", "publisher", "catalog_number",
     "duration_seconds", "audio_bitrate", "overall_bitrate", "sample_rate",
     "bit_depth", "channels", "tags", "created", "modified"}

\* OnConflict::column(Path).update_columns(...)
UpdateColumns ==
    {"extension", "title", "artist", "album", "disc_number", "track_number",
     "year", "genre", "album_artist", "publisher", "catalog_number",
     "duration_seconds", "audio_bitrate", "overall_bitrate", "sample_rate",
     "bit_depth", "channels", "tags", "modified"}

\* Columns whose value read_tags takes from the file's tags and properties.
ContentColumns == DraftColumns \ {"path", "extension", "created", "modified"}

VARIABLES
    fs,               \* files under the root: path -> [mtime, created]
    store,            \* rows of the track table
    nextId,           \* auto-increment counter of the table
    runs,             \* number of runs started so far
    config,           \* ScanConfig of the current run
    phase,            \* orchestrator: Idle, Running, Completed, Failed
    walker,           \* the spawned scan task
    wk,               \* extraction tasks, by path
    available,        \* permits left in the semaphore
    chan,             \* records buffered in the mpsc channel
    rxOpen,           \* the receiver has not been dropped
    wpc,              \* batch writer position: recv, flush, final, done
    stack,            \* the writer's batch buffer
    tracks_processed, \* records received by the writer
    total_files,      \* result of count_files
    progress,         \* position of the progress bar
    upsertLog,        \* outcome of every upsert_tracks call of the run
    fsChanges,        \* timestamp changes so far
    seen,             \* what the walker compared for each candidate of the run
    written,          \* paths covered by the successful upserts of the run
    failed_batch,     \* the batch of the upsert that failed
    hist,             \* the files as the run started and as it returned,
                      \* and the rows of the store as the run started
    prev,             \* how the previous run ended
    other,            \* a second run, started by a rescan request
    dir,              \* a directory tree under the root, and what a walk of it
                      \* counted and collected
    tagged,           \* the tags of one file, and the numbers read from them
    ranged            \* a Range header value, a file size, and what parse_range
                      \* makes of them

vars == <<fs, store, nextId, runs, config, phase, walker, wk, available, chan,
          rxOpen, wpc, stack, tracks_processed, total_files, progress,
          upsertLog, fsChanges, seen, written, failed_batch, hist, prev,
          other, dir, tagged, ranged>>

\* The variables of the directory walk, of tag reading and of range
\* parsing taken alone.
PureVars == <<dir, tagged, ranged>>

\* ------------------------------------------------------------------ helpers
RECURSIVE SetToSeq(_)
\* The elements of a set of paths in ascending order (directory order).
SetToSeq(S) ==
    IF S = {} THEN <<>>
    ELSE LET m == CHOOSE x \in S : \A y \in S : x <= y
         IN  <<m>> \o SetToSeq(S \ {m})

Range(s) == {s[i] : i \in 1..Len(s)}

Min(a, b) == IF a <= b THEN a ELSE b

\* Paths present in the store.
StorePaths == {r["path"] : r \in store}

RowsOf(p) == {r \in store : r["path"] = p}

\* Track::find().all(db): path -> modified of every row.
get_all_modified_by_path ==
    [p \in StorePaths |-> (CHOOSE r \in store : r["path"] = p)["modified"]]

\* get_modified_times_for_paths as it would be if the query answered for
\* the first path of the batch only.
get_modified_times_for_first_path(paths) ==
    [p \in {q \in StorePaths \cap paths : \A o \in paths : q <= o} |->
        (CHOOSE r \in store : r["path"] = p)["modified"]]

\* Track::find().filter(Path.is_in(paths)).all(db): path -> modified.
get_modified_times_for_paths(paths) ==
    [p \in (StorePaths \cap paths) |->
        (CHOOSE r \in store : r["path"] = p)["modified"]]

\* fs::metadata(path): the timestamps captured for a candidate.
metadata(p) == fs[p]

\* read_tags as it would be if it read the file's timestamps again instead
\* of taking them from the metadata the walker captured.
read_tags_restat(p, meta) ==
    [c \in DraftColumns |->
        CASE c = "path" -> p
          [] c = "extension" -> p
          [] c = "created" -> fs[p].created
          [] c = "modified" -> fs[p].mtime
          [] OTHER -> fs[p].mtime]

\* read_tags(path, metadata) on success: the draft built from the file as it
\* is when read and from the metadata captured by the walker.
read_tags(p, meta) ==
    [c \in DraftColumns |->
        CASE c = "path" -> p
          [] c = "extension" -> p
          [] c = "created" -> meta.created
          [] c = "modified" -> meta.mtime
          [] OTHER -> fs[p].mtime]

\* UpsertRow as it would be without the ON CONFLICT clause on a table
\* without the unique key: every draft becomes a new row.
UpsertRowInsertOnly(rows, nid, d) ==
    [rows |-> rows \cup {[c \in Columns |-> IF c = "id" THEN nid ELSE d[c]]},
     nid  |-> nid + 1]

\* One row of INSERT ... ON CONFLICT (path) DO UPDATE SET <UpdateColumns>.
UpsertRow(rows, nid, d) ==
    IF \E r \in rows : r["path"] = d["path"]
    THEN [rows |-> {IF r["path"] = d["path"]
                    THEN [c \in Columns |->
                             IF c \in UpdateColumns THEN d[c] ELSE r[c]]
                    ELSE r : r \in rows},
          nid  |-> nid]
    ELSE [rows |-> rows \cup {[c \in Columns |->
                                  IF c = "id" THEN nid ELSE d[c]]},
          nid  |-> nid + 1]

RECURSIVE upsert_tracks(_, _, _)
\* insert_many(tracks).on_conflict(on_conflict).exec(db), row by row.
upsert_tracks(rows, nid, tracks) ==
    IF tracks = <<>> THEN [rows |-> rows, nid |-> nid]
    ELSE LET one == UpsertRow(rows, nid, Head(tracks))
         IN  upsert_tracks(one.rows, one.nid, Tail(tracks))

\* ------------------------------------------------------------------ main.rs
\* Columns of the tracks table the rusqlite binary creates (no key on path).
LegacyColumns ==
    {"id", "uuid", "path", "extension", "title", "artist", "album", "genre",
     "album_artist", "publisher", "catalog_number", "duration_seconds",
     "audio_bitrate", "overall_bitrate", "sample_rate", "bit_depth",
     "channels", "tags", "created", "modified"}

\* UPDATE tracks SET ... WHERE path = ?17
LegacyUpdateColumns ==
    {"title", "artist", "album", "genre", "album_artist", "publisher",
     "catalog_number", "duration_seconds", "audio_bitrate", "overall_bitrate",
     "sample_rate", "bit_depth", "channels", "tags", "created", "modified"}

\* INSERT INTO tracks (uuid, path, ...): always a new row, with a new uuid.
insert_track(rows, nid, t) ==
    rows \cup {[c \in LegacyColumns |->
                  IF c \in {"id", "uuid"} THEN nid ELSE t[c]]}

\* UPDATE of every row whose path is the track's.
update_track(rows, t) ==
    {IF r["path"] = t["path"]
     THEN [c \in LegacyColumns |->
              IF c \in LegacyUpdateColumns THEN t[c] ELSE r[c]]
     ELSE r : r \in rows}

\* SELECT COUNT(*) ... WHERE path = ?1, then insert_track or update_track.
upsert_track(rows, nid, t) ==
    LET count == Cardinality({r \in rows : r["path"] = t["path"]})
    IN  IF count = 0 THEN insert_track(rows, nid, t)
        ELSE update_track(rows, t)

\* Worker task states.
IdleTask == [st |-> "none", meta |-> <<>>, draft |-> <<>>]

Active(p) == wk[p].st \in {"spawned", "extracting", "sending"}

\* Extractions in progress: the task runs read_tags or holds its result.
InFlight == {p \in AllPaths : wk[p].st \in {"extracting", "sending"}}

\* Some Sender of the channel is still alive.
SendersAlive == walker.pc # "done" \/ \E p \in AllPaths : Active(p)

\* A lookup map without entries.
EmptyMap == [p \in {} |-> Epoch]

NoWalker == [pc |-> "done", file_paths |-> <<>>, pos |-> 1, snap |-> EmptyMap,
             skipped |-> {}, unreadable |-> {}]

\* ScanConfig::default(), scaled to the bounds.
DefaultConfig == [optimized |-> TRUE, batch_size |-> MaxBatch,
                  path_batch_size |-> MaxWidth]

Configs == [optimized : BOOLEAN, batch_size : 1..MaxBatch,
            path_batch_size : 1..MaxWidth]

\* No rescan request has been made.
NoOther == [pc |-> "idle", file_paths |-> <<>>, pos |-> 1, snap |-> EmptyMap,
            wk |-> [p \in AllPaths |-> IdleTask], stack |-> <<>>,
            written |-> {}]

\* ------------------------------------------------------------------ directory walk
\* The entries of a directory tree are numbered from 1, the root is 0, and
\* an entry lies in the root or in a directory entry of a lower number.  An
\* entry is a directory, a regular file, something that is neither (a
\* socket, a dangling link), or one the directory listing failed to yield.
Root == 0
Nodes == 1..MaxNodes
Kinds == {"dir", "file", "other", "bad"}

WellFormed(t) ==
    \A n \in Nodes :
        /\ t.parent[n] < n
        /\ t.parent[n] = Root \/ t.kind[t.parent[n]] = "dir"
        /\ t.kind[n] # "dir" => t.readable[n]

\* The trees a walk is run on; readable[d] tells whether read_dir of the
\* directory d succeeds.
Trees ==
    {t \in [kind : [Nodes -> Kinds], parent : [Nodes -> 0..(MaxNodes - 1)],
            readable : [0..MaxNodes -> BOOLEAN]] : WellFormed(t)}

Entries(t, d) == {n \in Nodes : t.parent[n] = d}

RECURSIVE SumOf(_)
SumOf(f) ==
    IF DOMAIN f = {} THEN 0
    ELSE LET n == CHOOSE x \in DOMAIN f : TRUE
         IN f[n] + SumOf([x \in DOMAIN f \ {n} |-> f[x]])

RECURSIVE count_files_in(_, _)
\* count_files: a directory that cannot be listed counts 0, an entry that
\* cannot be read is passed over, a directory entry adds the count below
\* it, and every other entry adds one.
count_files_in(t, d) ==
    IF ~t.readable[d] THEN 0
    ELSE SumOf([n \in Entries(t, d) |->
                   CASE t.kind[n] = "bad" -> 0
                     [] t.kind[n] = "dir" -> count_files_in(t, n)
                     [] OTHER -> 1])

\* collect_file_paths as it would be if an unreadable directory ended the
\* whole walk with nothing collected.
CollectFilePathsAborting(t, d) ==
    IF \E n \in Nodes \cup {Root} :
           (n = Root \/ t.kind[n] = "dir") /\ ~t.readable[n]
    THEN {}
    ELSE {n \in Nodes : t.kind[n] = "file"}

RECURSIVE collect_file_paths(_, _)
\* collect_file_paths: a directory that cannot be listed yields nothing, an
\* entry that cannot be read is passed over, a directory entry yields what
\* is collected below it, and a regular file yields itself.
collect_file_paths(t, d) ==
    IF ~t.readable[d] THEN {}
    ELSE UNION {CASE t.kind[n] = "bad" -> {}
                  [] t.kind[n] = "dir" -> collect_file_paths(t, n)
                  [] t.kind[n] = "file" -> {n}
                  [] OTHER -> {} : n \in Entries(t, d)}

RECURSIVE scan_dir(_, _)
\* scan_dir: the files the fallback strategy examines, by the same rules.
scan_dir(t, d) ==
    IF ~t.readable[d] THEN {}
    ELSE UNION {CASE t.kind[n] = "bad" -> {}
                  [] t.kind[n] = "dir" -> scan_dir(t, n)
                  [] t.kind[n] = "file" -> {n}
                  [] OTHER -> {} : n \in Entries(t, d)}

EmptyTree ==
    [kind |-> [n \in Nodes |-> "bad"], parent |-> [n \in Nodes |-> Root],
     readable |-> [n \in 0..MaxNodes |-> TRUE]]

NoDir == [pc |-> "idle", tree |-> EmptyTree, count |-> 0, file_paths |-> {}]

\* ------------------------------------------------------------------ tag numbers
\* Tag values are strings, here sequences of characters; an Option is a
\* sequence of at most one element.
None == <<>>
Some(v) == <<v>>
Digits == {"0", "1", "2", "3"}
Chars == Digits \cup {"/", "x"}
Strings == UNION {[1..n -> Chars] : n \in 0..MaxStr}
DigitValue == [c \in Digits |-> CASE c = "0" -> 0 [] c = "1" -> 1
                                  [] c = "2" -> 2 [] OTHER -> 3]
MaxI32 == 2147483647

RECURSIVE ValueOf(_)
ValueOf(s) ==
    IF s = <<>> THEN 0
    ELSE 10 * ValueOf(SubSeq(s, 1, Len(s) - 1)) + DigitValue[s[Len(s)]]

\* s.parse::<i32>().ok() on the characters modelled: a non-empty run of
\* digits within range.
parse_i32(s) ==
    IF s = <<>> \/ (\E i \in 1..Len(s) : s[i] \notin Digits) THEN None
    ELSE IF ValueOf(s) > MaxI32 THEN None
    ELSE Some(ValueOf(s))

\* s.split('/').next(): what precedes the first '/', or all of s.
split_next(s) ==
    IF \E i \in 1..Len(s) : s[i] = "/"
    THEN LET i == CHOOSE k \in 1..Len(s) :
                      s[k] = "/" /\ \A j \in 1..(k - 1) : s[j] # "/"
         IN SubSeq(s, 1, i - 1)
    ELSE s

or_else(o, alt) == IF o # None THEN o ELSE alt
split_parse(s) == parse_i32(split_next(s))
\* o.and_then(|s| s.parse::<i32>().ok())
and_then_parse(o) == IF o = None THEN None ELSE parse_i32(o[1])
\* o.and_then(|s| s.split('/').next()?.parse::<i32>().ok())
and_then_split_parse(o) == IF o = None THEN None ELSE split_parse(o[1])

DiscKeys == <<"DISCNUMBER", "DISC", "TPOS">>
TrackKeys == <<"TRACKNUMBER", "TRACK", "TRCK">>
AltKeys == {DiscKeys[i] : i \in 1..3} \cup {TrackKeys[i] : i \in 1..3}

\* all_tags.get(k1).or_else(|| all_tags.get(k2)).or_else(|| all_tags.get(k3))
first_present(all_tags, keys) ==
    or_else(all_tags[keys[1]], or_else(all_tags[keys[2]], all_tags[keys[3]]))

\* The disc number as it would be if a missing one were stored as zero.
disc_number_or_zero(tag) ==
    or_else(and_then_parse(tag.DiscNumber),
            or_else(and_then_split_parse(tag.DiscNumber),
                    or_else(and_then_split_parse(
                                first_present(tag.all_tags, DiscKeys)),
                            Some(0))))

\* read_tags, disc_number: the DiscNumber item parsed whole, else what
\* precedes its '/', else the first alternate key present.
disc_number(tag) ==
    or_else(and_then_parse(tag.DiscNumber),
            or_else(and_then_split_parse(tag.DiscNumber),
                    and_then_split_parse(
                        first_present(tag.all_tags, DiscKeys))))

\* The track number as it would be if the TrackNumber item were parsed
\* whole, without the split at '/'.
track_number_unsplit(tag) ==
    or_else(tag.track,
            or_else(and_then_parse(tag.TrackNumber),
                    and_then_split_parse(
                        first_present(tag.all_tags, TrackKeys))))

\* read_tags, track_number: tag.track(), else what precedes the '/' of the
\* TrackNumber item, else the first alternate key present.
track_number(tag) ==
    or_else(tag.track,
            or_else(and_then_split_parse(tag.TrackNumber),
                    and_then_split_parse(
                        first_present(tag.all_tags, TrackKeys))))

\* The values an alternate key is given, and the structured track numbers.
AltValues == {None, Some(<<"0", "/", "3">>), Some(<<"x">>)}
Structured == {None, Some(0), Some(3)}
OptStrings == {None} \cup {Some(s) : s \in Strings}
NoAlt == [k \in AltKeys |-> None]
AltOver(keys) ==
    {[k \in AltKeys |-> IF k = keys[1] THEN a
                        ELSE IF k = keys[2] THEN b
                        ELSE IF k = keys[3] THEN c ELSE None] :
        a \in AltValues, b \in AltValues, c \in AltValues}

\* A tag set that carries disc items only, and one that carries track
\* items only.
DiscTags(d, m) ==
    [track |-> None, TrackNumber |-> None, DiscNumber |-> d, all_tags |-> m]
TrackTags(n, t, m) ==
    [track |-> n, TrackNumber |-> t, DiscNumber |-> None, all_tags |-> m]

EmptyTag ==
    [track |-> None, TrackNumber |-> None, DiscNumber |-> None,
     all_tags |-> NoAlt]

NoTags ==
    [pc |-> "idle", tag |-> EmptyTag, disc_number |-> None,
     track_number |-> None]

\* ------------------------------------------------------------------ byte ranges
\* The part of a Range header after "bytes=", as a sequence of characters.
RangeChars == Digits \cup {"-", "x"}
RangeStrings == UNION {[1..n -> RangeChars] : n \in 0..MaxStr}
FileSizes == 0..MaxSize

\* s.parse::<u64>() on the characters modelled: a non-empty run of digits
\* (no value of MaxStr digits exceeds u64::MAX).
parse_u64(s) ==
    IF s = <<>> \/ (\E i \in 1..Len(s) : s[i] \notin Digits) THEN None
    ELSE Some(ValueOf(s))

\* range_str.find('-'): the position of the first '-', 0 for None.
find_dash(s) ==
    IF \E i \in 1..Len(s) : s[i] = "-"
    THEN CHOOSE k \in 1..Len(s) : s[k] = "-" /\ \A j \in 1..(k - 1) : s[j] # "-"
    ELSE 0

\* file_size.saturating_sub(suffix_length)
saturating_sub(a, b) == IF a >= b THEN a - b ELSE 0

\* file_size - 1 in u64: the value; for a size of 0 the subtraction
\* overflows, which panics in a build with overflow checks and wraps to
\* u64::MAX ("max") in one without.
size_minus_one(size) ==
    IF size > 0 THEN {[k |-> "val", v |-> size - 1]}
    ELSE {[k |-> "panic", v |-> 0], [k |-> "max", v |-> 0]}

\* std::cmp::min(parsed_end, file_size - 1)
min_with(parsed_end, m) ==
    CASE m.k = "val" -> [k |-> "val", v |-> Min(parsed_end, m.v)]
      [] m.k = "max" -> [k |-> "val", v |-> parsed_end]
      [] OTHER -> m

Unsatisfiable == [tag |-> "Err", start |-> 0, end |-> 0]
Panicked == [tag |-> "Panic", start |-> 0, end |-> 0]
OkRange(a, b) == [tag |-> "Ok", start |-> a, end |-> b]

\* The last statement of parse_range: Ok((start, end)) if start <= end and
\* end < file_size, else RANGE_NOT_SATISFIABLE.
range_result(start, e, size) ==
    CASE e.k = "panic" -> Panicked
      [] e.k = "max" -> Unsatisfiable
      [] OTHER -> IF start <= e.v /\ e.v < size THEN OkRange(start, e.v)
                  ELSE Unsatisfiable

\* parse_range(range_str, file_size): the results it can end with.
parse_range(s, size) ==
    LET dash_pos == find_dash(s)
        start_str == SubSeq(s, 1, dash_pos - 1)
        end_str == SubSeq(s, dash_pos + 1, Len(s))
        start == IF start_str = <<>>
                 THEN IF parse_u64(end_str) = None THEN None
                      ELSE Some(saturating_sub(size, parse_u64(end_str)[1]))
                 ELSE parse_u64(start_str)
    IN  IF dash_pos = 0 THEN {Unsatisfiable}
        ELSE IF start = None THEN {Unsatisfiable}
        ELSE IF end_str = <<>>
             THEN {range_result(start[1], m, size) : m \in size_minus_one(size)}
        ELSE IF parse_u64(end_str) = None THEN {Unsatisfiable}
        ELSE {range_result(start[1], min_with(parse_u64(end_str)[1], m), size) :
                 m \in size_minus_one(size)}

NoRange == [pc |-> "idle", range_str |-> <<>>, file_size |-> 0,
            result |-> Unsatisfiable]

\* ------------------------------------------------------------------ initial state
\* A freshly migrated, empty store, and the given files under the root;
\* `started` runs count as already used up.
InitRun(files, started) ==
    /\ fs \in [files -> {[mtime |-> t, created |-> t] : t \in InitTimes}]
    /\ store = {}
    /\ nextId = 1
    /\ runs = started
    /\ config = DefaultConfig
    /\ phase = "Idle"
    /\ walker = NoWalker
    /\ wk = [p \in AllPaths |-> IdleTask]
    /\ available = Ceiling
    /\ chan = <<>>
    /\ rxOpen = FALSE
    /\ wpc = "done"
    /\ stack = <<>>
    /\ tracks_processed = 0
    /\ total_files = 0
    /\ progress = 0
    /\ upsertLog = <<>>
    /\ fsChanges = 0
    /\ seen = [p \in AllPaths |-> <<>>]
    /\ written = {}
    /\ failed_batch = <<>>
    /\ hist = [start |-> fs, ret |-> fs, store |-> {}]
    /\ prev = [phase |-> "Idle", sent |-> {}, start |-> fs, ret |-> fs]
    /\ other = NoOther

\* The same, with no directory walked and no tags read.
InitWith(files, started) ==
    /\ InitRun(files, started)
    /\ dir = NoDir
    /\ tagged = NoTags
    /\ ranged = NoRange

\* Two runs in succession over the files of IncrPaths.
Init == InitWith(IncrPaths, 0)

\* One run over all the paths: more candidates than permits.
InitPool == InitWith(AllPaths, MaxRuns - 1)

\* ------------------------------------------------------------------ orchestrator
\* count_files as it would be if it counted the rows of the store.
CountStoredFiles == Cardinality(StorePaths)

\* count_files(path): every file under the root.
count_files == Cardinality(DOMAIN fs)

Quiescent == walker.pc = "done" /\ \A p \in AllPaths : ~Active(p)

\* Setup as it would be if the count were not taken before the work starts.
SetupWithoutCount(cfg) ==
    /\ runs' = runs + 1
    /\ config' = cfg
    /\ total_files' = total_files
    /\ progress' = 0
    /\ chan' = <<>>
    /\ stack' = <<>>
    /\ tracks_processed' = 0
    /\ upsertLog' = <<>>
    /\ wk' = [p \in AllPaths |-> IdleTask]
    /\ seen' = [p \in AllPaths |-> <<>>]
    /\ written' = {}
    /\ failed_batch' = <<>>
    /\ prev' = [phase |-> phase, sent |-> {p \in AllPaths : wk[p].st = "sent"},
                start |-> hist.start, ret |-> hist.ret]
    /\ UNCHANGED <<fs, store, nextId, fsChanges, other, PureVars>>

\* What scan_music_library sets up before the writer loop, common to both
\* strategies: the count, the progress bar, the channel, the empty batch.
Setup(cfg) ==
    /\ runs' = runs + 1
    /\ config' = cfg
    /\ total_files' = count_files
    /\ progress' = 0
    /\ chan' = <<>>
    /\ stack' = <<>>
    /\ tracks_processed' = 0
    /\ upsertLog' = <<>>
    /\ wk' = [p \in AllPaths |-> IdleTask]
    /\ seen' = [p \in AllPaths |-> <<>>]
    /\ written' = {}
    /\ failed_batch' = <<>>
    /\ prev' = [phase |-> phase, sent |-> {p \in AllPaths : wk[p].st = "sent"},
                start |-> hist.start, ret |-> hist.ret]
    /\ UNCHANGED <<fs, store, nextId, fsChanges, other, PureVars>>

\* scan_music_library up to the writer loop, batched-query strategy: the scan
\* task is spawned and will collect the paths and create the semaphore.
StartOptimized(cfg) ==
    /\ phase \in {"Idle", "Completed", "Failed"}
    /\ runs < MaxRuns
    /\ Quiescent
    /\ cfg.optimized
    /\ Setup(cfg)
    /\ phase' = "Running"
    /\ rxOpen' = TRUE
    /\ wpc' = "recv"
    /\ walker' = [NoWalker EXCEPT !.pc = "collect"]
    /\ available' = Ceiling
    /\ hist' = [start |-> fs, ret |-> fs, store |-> store]

\* scan_music_library up to the writer loop, full-preload strategy: the map is
\* loaded, then scan_dir is spawned with it.
StartFallback(cfg) ==
    /\ phase \in {"Idle", "Completed", "Failed"}
    /\ runs < MaxRuns
    /\ Quiescent
    /\ ~cfg.optimized
    /\ Setup(cfg)
    /\ phase' = "Running"
    /\ rxOpen' = TRUE
    /\ wpc' = "recv"
    /\ walker' = [pc |-> IF DOMAIN fs = {} THEN "done" ELSE "detect",
                  file_paths |-> SetToSeq(DOMAIN fs),
                  pos |-> 1, snap |-> get_all_modified_by_path,
                  skipped |-> {}, unreadable |-> {}]
    /\ available' = available
    /\ hist' = [start |-> fs, ret |-> fs, store |-> store]

\* StartFallbackPreloadErr as it would be if the walker were spawned before
\* the preload is awaited: the error is returned with the walker under way
\* on an empty map.
PreloadErrAfterSpawn(cfg) ==
    /\ phase \in {"Idle", "Completed", "Failed"}
    /\ runs < MaxRuns
    /\ Quiescent
    /\ ~cfg.optimized
    /\ Setup(cfg)
    /\ phase' = "Failed"
    /\ rxOpen' = FALSE
    /\ wpc' = "done"
    /\ walker' = [pc |-> IF DOMAIN fs = {} THEN "done" ELSE "detect",
                  file_paths |-> SetToSeq(DOMAIN fs),
                  pos |-> 1, snap |-> EmptyMap,
                  skipped |-> {}, unreadable |-> {}]
    /\ available' = available
    /\ hist' = [start |-> fs, ret |-> fs, store |-> store]

\* get_all_modified_by_path(db).await? fails: the run returns the error
\* before anything is spawned.
StartFallbackPreloadErr(cfg) ==
    /\ phase \in {"Idle", "Completed", "Failed"}
    /\ runs < MaxRuns
    /\ Quiescent
    /\ ~cfg.optimized
    /\ Setup(cfg)
    /\ phase' = "Failed"
    /\ rxOpen' = FALSE
    /\ wpc' = "done"
    /\ walker' = NoWalker
    /\ available' = available
    /\ hist' = [start |-> fs, ret |-> fs, store |-> store]

\* ------------------------------------------------------------------ walker
WalkerVarsOnly ==
    UNCHANGED <<fs, store, nextId, runs, config, phase, available, chan,
                rxOpen, wpc, stack, tracks_processed, total_files, progress,
                upsertLog, fsChanges, written, failed_batch, hist, prev,
                other, PureVars>>

\* collect_file_paths(path, &mut file_paths) and Semaphore::new.
Collect ==
    /\ walker.pc = "collect"
    /\ LET paths == SetToSeq(DOMAIN fs)
       IN  walker' = [walker EXCEPT
                         !.file_paths = paths,
                         !.pos = 1,
                         !.pc = IF paths = <<>> THEN "done" ELSE "query"]
    /\ UNCHANGED <<wk, seen>>
    /\ WalkerVarsOnly

\* The chunk of file_paths.chunks(batch_size) that starts at walker.pos.
Chunk ==
    {walker.file_paths[i] :
        i \in walker.pos..Min(walker.pos + config.path_batch_size - 1,
                              Len(walker.file_paths))}

\* get_modified_times_for_paths(db, &paths) answers.
QueryOk ==
    /\ walker.pc = "query"
    /\ walker' = [walker EXCEPT
                     !.snap = get_modified_times_for_paths(Chunk),
                     !.pc = "detect"]
    /\ UNCHANGED <<wk, seen>>
    /\ WalkerVarsOnly

\* QueryErr as it would be if the chunk were treated as all changed.
QueryErrAllChanged ==
    /\ walker.pc = "query"
    /\ LET next == walker.pos + config.path_batch_size
       IN  walker' = [walker EXCEPT
                         !.pos = next,
                         !.skipped = @ \cup Chunk,
                         !.pc = IF next > Len(walker.file_paths)
                                THEN "done" ELSE "query"]
    /\ wk' = [p \in AllPaths |->
                 IF p \in Chunk \cap DOMAIN fs
                 THEN [st |-> "spawned", meta |-> <<metadata(p)>>,
                       draft |-> <<>>]
                 ELSE wk[p]]
    /\ UNCHANGED seen
    /\ WalkerVarsOnly

\* get_modified_times_for_paths fails: the error is logged and the loop
\* continues with the next chunk.
QueryErr ==
    /\ walker.pc = "query"
    /\ LET next == walker.pos + config.path_batch_size
       IN  walker' = [walker EXCEPT
                         !.pos = next,
                         !.skipped = @ \cup Chunk,
                         !.pc = IF next > Len(walker.file_paths)
                                THEN "done" ELSE "query"]
    /\ UNCHANGED <<wk, seen>>
    /\ WalkerVarsOnly

\* Advance as it would be if consecutive chunks overlapped: the chunk after
\* a boundary starts again at the last path of the chunk before.
AdvanceOverlapping ==
    LET next == walker.pos + 1
        boundary == config.optimized /\ next <= Len(walker.file_paths)
                       /\ (next - 1) % config.path_batch_size = 0
    IN  [walker EXCEPT
            !.pos = IF boundary THEN walker.pos ELSE next,
            !.pc = IF next > Len(walker.file_paths) THEN "done"
                   ELSE IF boundary THEN "query" ELSE "detect"]

\* The walker's position after the candidate at walker.pos.
Advance ==
    LET next == walker.pos + 1
    IN  [walker EXCEPT
            !.pos = next,
            !.pc = IF next > Len(walker.file_paths) THEN "done"
                   ELSE IF config.optimized
                           /\ (next - 1) % config.path_batch_size = 0
                        THEN "query" ELSE "detect"]

\* modified_by_path.get(path_str) ... unwrap_or(UNIX_EPOCH)
modified_last_scan(p) ==
    IF p \in DOMAIN walker.snap THEN walker.snap[p] ELSE Epoch

\* IsChanged as it would be with >= for >.
IsChangedOrEqual(p, meta) == meta.mtime >= modified_last_scan(p)

\* if modified > modified_last_scan
IsChanged(p, meta) == meta.mtime > modified_last_scan(p)

\* What an observer of the store and of the walker notes of one comparison:
\* the timestamp compared, the store's row for the path at that moment, and
\* the walker's verdict.
Observed(p, meta) ==
    [modified |-> meta.mtime,
     known    |-> p \in StorePaths,
     stored   |-> IF p \in StorePaths
                  THEN (CHOOSE r \in store : r["path"] = p)["modified"]
                  ELSE Epoch,
     changed  |-> IsChanged(p, meta)]

\* One candidate of the chunk (or of scan_dir's directory loop): stat it,
\* compare it, spawn the extraction task when it has changed.
Detect ==
    /\ walker.pc = "detect"
    /\ walker.file_paths[walker.pos] \in DOMAIN fs
    /\ LET p == walker.file_paths[walker.pos]
           meta == metadata(p)
       IN  /\ wk' = IF IsChanged(p, meta)
                    THEN [wk EXCEPT ![p] = [st |-> "spawned",
                                            meta |-> <<meta>>,
                                            draft |-> <<>>]]
                    ELSE wk
           /\ seen' = [seen EXCEPT ![p] = <<Observed(p, meta)>>]
    /\ walker' = Advance
    /\ WalkerVarsOnly

\* fs::metadata or metadata.modified() fails: logged, next candidate.
DetectStatErr ==
    /\ walker.pc = "detect"
    /\ walker' = [Advance EXCEPT
                     !.unreadable = @ \cup {walker.file_paths[walker.pos]}]
    /\ UNCHANGED <<wk, seen>>
    /\ WalkerVarsOnly

\* ------------------------------------------------------------------ workers
WorkerVarsOnly ==
    UNCHANGED <<fs, store, nextId, runs, config, phase, walker, rxOpen, wpc,
                stack, tracks_processed, total_files, progress, upsertLog,
                fsChanges, seen, written, failed_batch, hist, prev, other,
                PureVars>>

\* Released as it would be if a finished task kept its permit.
ReleasedKept == available

\* Dropping _permit at the end of the task (no semaphore in scan_dir).
Released == IF config.optimized THEN available + 1 ELSE available

\* Acquire as it would be if the task did not wait for a permit.
AcquireWithoutWaiting(p) ==
    /\ config.optimized
    /\ wk[p].st = "spawned"
    /\ available' = available - 1
    /\ wk' = [wk EXCEPT ![p].st = "extracting"]
    /\ UNCHANGED chan
    /\ WorkerVarsOnly

\* semaphore_permit.acquire().await in a task of scan_dir_optimized.
Acquire(p) ==
    /\ config.optimized
    /\ wk[p].st = "spawned"
    /\ available > 0
    /\ available' = available - 1
    /\ wk' = [wk EXCEPT ![p].st = "extracting"]
    /\ UNCHANGED chan
    /\ WorkerVarsOnly

\* A task spawned by scan_dir starts running: it acquires nothing.
StartExtract(p) ==
    /\ ~config.optimized
    /\ wk[p].st = "spawned"
    /\ wk' = [wk EXCEPT ![p].st = "extracting"]
    /\ UNCHANGED <<available, chan>>
    /\ WorkerVarsOnly

\* read_tags returns Ok(track).
ExtractOk(p) ==
    /\ wk[p].st = "extracting"
    /\ p \in DOMAIN fs
    /\ wk' = [wk EXCEPT ![p].st = "sending",
                        ![p].draft = <<read_tags(p, wk[p].meta[1])>>]
    /\ UNCHANGED <<available, chan>>
    /\ WorkerVarsOnly

\* ExtractErr as it would be if a file's failure aborted the run.
ExtractErrFatal(p) ==
    /\ wk[p].st = "extracting"
    /\ wk' = [wk EXCEPT ![p] = [st |-> "failed", meta |-> <<>>, draft |-> <<>>]]
    /\ available' = Released
    /\ phase' = "Failed"
    /\ rxOpen' = FALSE
    /\ UNCHANGED <<fs, store, nextId, runs, config, walker, chan, wpc, stack,
                   tracks_processed, total_files, progress, upsertLog,
                   fsChanges, seen, written, failed_batch, hist, prev,
                   other, PureVars>>

\* read_tags returns Err: logged, the task ends.
ExtractErr(p) ==
    /\ wk[p].st = "extracting"
    /\ wk' = [wk EXCEPT ![p] = [st |-> "failed", meta |-> <<>>, draft |-> <<>>]]
    /\ available' = Released
    /\ UNCHANGED chan
    /\ WorkerVarsOnly

\* Send as it would be on an unbounded channel.
SendUnbounded(p) ==
    /\ wk[p].st = "sending"
    /\ rxOpen
    /\ chan' = Append(chan, wk[p].draft[1])
    /\ wk' = [wk EXCEPT ![p] = [st |-> "sent", meta |-> <<>>, draft |-> <<>>]]
    /\ available' = Released
    /\ WorkerVarsOnly

\* Send as it would be with try_send: a record that finds the channel full
\* is dropped.
SendLossy(p) ==
    /\ wk[p].st = "sending"
    /\ rxOpen
    /\ chan' = IF Len(chan) < ChanCap THEN Append(chan, wk[p].draft[1])
               ELSE chan
    /\ wk' = [wk EXCEPT ![p] = [st |-> "sent", meta |-> <<>>, draft |-> <<>>]]
    /\ available' = Released
    /\ WorkerVarsOnly

\* tx.send(track).await completes: the channel has room.
Send(p) ==
    /\ wk[p].st = "sending"
    /\ rxOpen
    /\ Len(chan) < ChanCap
    /\ chan' = Append(chan, wk[p].draft[1])
    /\ wk' = [wk EXCEPT ![p] = [st |-> "sent", meta |-> <<>>, draft |-> <<>>]]
    /\ available' = Released
    /\ WorkerVarsOnly

\* SendRejected as it would be if a task whose send fails kept its permit.
SendRejectedKeepingPermit(p) ==
    /\ wk[p].st = "sending"
    /\ ~rxOpen
    /\ wk' = [wk EXCEPT ![p] = [st |-> "rejected", meta |-> <<>>,
                                draft |-> <<>>]]
    /\ available' = available
    /\ UNCHANGED chan
    /\ WorkerVarsOnly

\* SendRejected as it would be if a send on the closed channel never
\* returned: the task stays parked with its record.
SendParkedForever(p) ==
    /\ wk[p].st = "sending"
    /\ ~rxOpen
    /\ UNCHANGED vars

\* tx.send(track).await returns Err: the receiver is gone.
SendRejected(p) ==
    /\ wk[p].st = "sending"
    /\ ~rxOpen
    /\ wk' = [wk EXCEPT ![p] = [st |-> "rejected", meta |-> <<>>,
                                draft |-> <<>>]]
    /\ available' = Released
    /\ UNCHANGED chan
    /\ WorkerVarsOnly

\* ------------------------------------------------------------------ batch writer
WriterVarsOnly ==
    UNCHANGED <<fs, runs, config, walker, wk, available, total_files,
                fsChanges, seen, prev, other, PureVars>>

\* Recv as it would be if the counter advanced on receipt of a record.
RecvCountsProgress ==
    /\ phase = "Running"
    /\ wpc = "recv"
    /\ chan # <<>>
    /\ stack' = Append(stack, Head(chan))
    /\ chan' = Tail(chan)
    /\ tracks_processed' = tracks_processed + 1
    /\ progress' = progress + 1
    /\ wpc' = IF Len(stack) + 1 >= config.batch_size THEN "flush" ELSE "recv"
    /\ UNCHANGED <<store, nextId, phase, rxOpen, upsertLog, written,
                   failed_batch, hist>>
    /\ WriterVarsOnly

\* Recv as it would be if the batch were flushed only once it exceeds the
\* batch size.
RecvFlushLate ==
    /\ phase = "Running"
    /\ wpc = "recv"
    /\ chan # <<>>
    /\ stack' = Append(stack, Head(chan))
    /\ chan' = Tail(chan)
    /\ tracks_processed' = tracks_processed + 1
    /\ wpc' = IF Len(stack) + 1 > config.batch_size THEN "flush" ELSE "recv"
    /\ UNCHANGED <<store, nextId, phase, rxOpen, progress, upsertLog,
                   written, failed_batch, hist>>
    /\ WriterVarsOnly

\* rx.recv() yields a track: push it, flush when the batch is full.
Recv ==
    /\ phase = "Running"
    /\ wpc = "recv"
    /\ chan # <<>>
    /\ stack' = Append(stack, Head(chan))
    /\ chan' = Tail(chan)
    /\ tracks_processed' = tracks_processed + 1
    /\ wpc' = IF Len(stack) + 1 >= config.batch_size THEN "flush" ELSE "recv"
    /\ UNCHANGED <<store, nextId, phase, rxOpen, progress, upsertLog,
                   written, failed_batch, hist>>
    /\ WriterVarsOnly

\* The tail of scan_music_library after the last upsert: the remaining
\* progress, scan_handle.await, Ok(ScanResult).
Completed(done) ==
    /\ progress' = done + (IF total_files > tracks_processed
                           THEN total_files - tracks_processed ELSE 0)
    /\ phase' = "Completed"
    /\ rxOpen' = FALSE
    /\ wpc' = "done"
    /\ hist' = [hist EXCEPT !.ret = fs]

\* ScanResult { files_scanned: total_files, tracks_processed }
ScanResult ==
    [files_scanned |-> total_files, tracks_processed |-> tracks_processed]

\* RecvClosed as it would be without the flush after the loop: the partial
\* batch is dropped.
RecvClosedWithoutFlush ==
    /\ phase = "Running"
    /\ wpc = "recv"
    /\ chan = <<>>
    /\ ~SendersAlive
    /\ Completed(progress)
    /\ UNCHANGED <<store, nextId, chan, stack, tracks_processed, upsertLog,
                   written, failed_batch>>
    /\ WriterVarsOnly

\* RecvClosed as it would be if recv() gave None whenever the channel is
\* empty, senders alive or not.
RecvClosedEarly ==
    /\ phase = "Running"
    /\ wpc = "recv"
    /\ chan = <<>>
    /\ IF stack = <<>>
       THEN Completed(progress)
       ELSE /\ wpc' = "final"
            /\ UNCHANGED <<progress, phase, rxOpen, hist>>
    /\ UNCHANGED <<store, nextId, chan, stack, tracks_processed, upsertLog,
                   written, failed_batch>>
    /\ WriterVarsOnly

\* rx.recv() yields None: every Sender is dropped and the buffer is empty.
RecvClosed ==
    /\ phase = "Running"
    /\ wpc = "recv"
    /\ chan = <<>>
    /\ ~SendersAlive
    /\ IF stack = <<>>
       THEN Completed(progress)
       ELSE /\ wpc' = "final"
            /\ UNCHANGED <<progress, phase, rxOpen, hist>>
    /\ UNCHANGED <<store, nextId, chan, stack, tracks_processed, upsertLog,
                   written, failed_batch>>
    /\ WriterVarsOnly

\* UpsertOk as it would be if the flush also deleted the rows of files that
\* are no longer under the root.
UpsertOkPruning ==
    /\ phase = "Running"
    /\ wpc \in {"flush", "final"}
    /\ LET res == upsert_tracks(store, nextId, stack)
       IN  /\ store' = {r \in res.rows : r["path"] \in DOMAIN fs}
           /\ nextId' = res.nid
    /\ upsertLog' = Append(upsertLog, "ok")
    /\ written' = written \cup {stack[i]["path"] : i \in 1..Len(stack)}
    /\ stack' = <<>>
    /\ IF wpc = "flush"
       THEN /\ progress' = progress + Len(stack)
            /\ wpc' = "recv"
            /\ UNCHANGED <<phase, rxOpen, hist>>
       ELSE Completed(progress + Len(stack))
    /\ UNCHANGED <<chan, tracks_processed, failed_batch>>
    /\ WriterVarsOnly

\* upsert_tracks(&stack, db).await succeeds, in the loop or after it.
UpsertOk ==
    /\ phase = "Running"
    /\ wpc \in {"flush", "final"}
    /\ LET res == upsert_tracks(store, nextId, stack)
       IN  /\ store' = res.rows
           /\ nextId' = res.nid
    /\ upsertLog' = Append(upsertLog, "ok")
    /\ written' = written \cup {stack[i]["path"] : i \in 1..Len(stack)}
    /\ stack' = <<>>
    /\ IF wpc = "flush"
       THEN /\ progress' = progress + Len(stack)
            /\ wpc' = "recv"
            /\ UNCHANGED <<phase, rxOpen, hist>>
       ELSE Completed(progress + Len(stack))
    /\ UNCHANGED <<chan, tracks_processed, failed_batch>>
    /\ WriterVarsOnly

\* UpsertErr as it would be if the error were logged and the loop went on.
UpsertErrIgnored ==
    /\ phase = "Running"
    /\ wpc \in {"flush", "final"}
    /\ upsertLog' = Append(upsertLog, "err")
    /\ failed_batch' = stack
    /\ stack' = <<>>
    /\ IF wpc = "flush"
       THEN /\ wpc' = "recv"
            /\ UNCHANGED <<progress, phase, rxOpen, hist>>
       ELSE Completed(progress)
    /\ UNCHANGED <<store, nextId, chan, tracks_processed, written>>
    /\ WriterVarsOnly

\* upsert_tracks(&stack, db).await? fails: the function returns the error;
\* its locals (the batch, the receiver and what it buffers) are dropped.
UpsertErr ==
    /\ phase = "Running"
    /\ wpc \in {"flush", "final"}
    /\ upsertLog' = Append(upsertLog, "err")
    /\ failed_batch' = stack
    /\ phase' = "Failed"
    /\ rxOpen' = FALSE
    /\ chan' = <<>>
    /\ stack' = <<>>
    /\ wpc' = "done"
    /\ hist' = [hist EXCEPT !.ret = fs]
    /\ UNCHANGED <<store, nextId, tracks_processed, progress, written>>
    /\ WriterVarsOnly

\* ------------------------------------------------------------------ filesystem
\* A file is written in place: its modification time advances.
Touch(p) ==
    /\ fsChanges < MaxFsChanges
    /\ fs[p].mtime < MaxTime
    /\ fs' = [fs EXCEPT ![p].mtime = @ + 1]
    /\ fsChanges' = fsChanges + 1
    /\ UNCHANGED <<store, nextId, runs, config, phase, walker, wk, available,
                   chan, rxOpen, wpc, stack, tracks_processed, total_files,
                   progress, upsertLog, seen, written, failed_batch, hist,
                   prev, other, PureVars>>

\* A file is replaced by a new file of the same name.
Replace(p) ==
    /\ fsChanges < MaxFsChanges
    /\ fs[p].mtime < MaxTime
    /\ fs' = [fs EXCEPT ![p] = [mtime |-> fs[p].mtime + 1,
                                created |-> fs[p].mtime + 1]]
    /\ fsChanges' = fsChanges + 1
    /\ UNCHANGED <<store, nextId, runs, config, phase, walker, wk, available,
                   chan, rxOpen, wpc, stack, tracks_processed, total_files,
                   progress, upsertLog, seen, written, failed_batch, hist,
                   prev, other, PureVars>>

\* A file is deleted: later stats and opens of its path fail.
Remove(p) ==
    /\ fsChanges < MaxFsChanges
    /\ fs' = [q \in DOMAIN fs \ {p} |-> fs[q]]
    /\ fsChanges' = fsChanges + 1
    /\ UNCHANGED <<store, nextId, runs, config, phase, walker, wk, available,
                   chan, rxOpen, wpc, stack, tracks_processed, total_files,
                   progress, upsertLog, seen, written, failed_batch, hist,
                   prev, other, PureVars>>

\* ------------------------------------------------------------------ specification
\* The steps of a run: orchestrator, walker, workers and writer.
Pipeline ==
    \/ \E cfg \in Configs : StartOptimized(cfg)
    \/ \E cfg \in Configs : StartFallback(cfg)
    \/ \E cfg \in Configs : StartFallbackPreloadErr(cfg)
    \/ Collect
    \/ QueryOk
    \/ QueryErr
    \/ Detect
    \/ DetectStatErr
    \/ \E p \in AllPaths : Acquire(p)
    \/ \E p \in AllPaths : StartExtract(p)
    \/ \E p \in AllPaths : ExtractOk(p)
    \/ \E p \in AllPaths : ExtractErr(p)
    \/ \E p \in AllPaths : Send(p)
    \/ \E p \in AllPaths : SendRejected(p)
    \/ Recv
    \/ RecvClosed
    \/ UpsertOk
    \/ UpsertErr

Next ==
    \/ Pipeline
    \/ \E p \in DOMAIN fs : Touch(p)
    \/ \E p \in DOMAIN fs : Replace(p)
    \/ \E p \in DOMAIN fs : Remove(p)

Spec == Init /\ [][Next]_vars

\* One run over a tree that does not change while it runs.
SpecPool == InitPool /\ [][Pipeline]_vars

\* The steps of the spawned scan task.
WalkerStep == Collect \/ QueryOk \/ QueryErr \/ Detect \/ DetectStatErr

\* The steps of the extraction task of one path.
WorkerStep(p) ==
    \/ Acquire(p)
    \/ StartExtract(p)
    \/ ExtractOk(p)
    \/ ExtractErr(p)
    \/ Send(p)
    \/ SendRejected(p)

\* The steps of the writer loop of scan_music_library.
WriterStep == Recv \/ RecvClosed \/ UpsertOk \/ UpsertErr

\* The tokio runtime polls every task that can make progress, and every
\* store call and every extraction returns.
Fairness ==
    /\ WF_vars(WalkerStep)
    /\ \A p \in AllPaths : WF_vars(WorkerStep(p))
    /\ WF_vars(WriterStep)

\* One run over all the paths under fair scheduling.
SpecLive == InitPool /\ [][Pipeline]_vars /\ Fairness

\* ------------------------------------------------------------------ second run
\* POST /rescan while a run may be in progress: rescan_library spawns
\* scan_music_library with batch_size 100, path_batch_size 1000 and the
\* batched-query strategy, on the same store. The library is smaller than
\* every one of its limits (100, 1000, 50 permits, 2000 slots): one query
\* covers every path, no task waits for a permit or a slot, and the only
\* upsert is the one after the loop. Store calls, stats and extractions of
\* this run succeed.
OtherRunVars ==
    <<fs, runs, config, phase, walker, wk, available, chan, rxOpen, wpc, stack,
      tracks_processed, total_files, progress, upsertLog, fsChanges, seen,
      written, failed_batch, hist, prev, PureVars>>

\* rescan_library: the run is spawned; its scan task collects the paths.
OtherRescan ==
    /\ other.pc = "idle"
    /\ LET paths == SetToSeq(DOMAIN fs)
       IN  other' = [NoOther EXCEPT
                        !.file_paths = paths,
                        !.pc = IF paths = <<>> THEN "drain" ELSE "query"]
    /\ UNCHANGED <<store, nextId>>
    /\ UNCHANGED OtherRunVars

\* get_modified_times_for_paths for the one chunk of the run.
OtherQuery ==
    /\ other.pc = "query"
    /\ other' = [other EXCEPT
                    !.snap = get_modified_times_for_paths(Range(other.file_paths)),
                    !.pc = "detect"]
    /\ UNCHANGED <<store, nextId>>
    /\ UNCHANGED OtherRunVars

\* One candidate: stat, compare with the map or UNIX_EPOCH, spawn the task.
OtherDetect ==
    /\ other.pc = "detect"
    /\ other.file_paths[other.pos] \in DOMAIN fs
    /\ LET p == other.file_paths[other.pos]
           meta == metadata(p)
           last == IF p \in DOMAIN other.snap THEN other.snap[p] ELSE Epoch
           next == other.pos + 1
       IN  other' = [other EXCEPT
                        !.wk[p] = IF meta.mtime > last
                                  THEN [st |-> "spawned", meta |-> <<meta>>,
                                        draft |-> <<>>]
                                  ELSE @,
                        !.pos = next,
                        !.pc = IF next > Len(other.file_paths)
                               THEN "drain" ELSE "detect"]
    /\ UNCHANGED <<store, nextId>>
    /\ UNCHANGED OtherRunVars

\* The task has its permit and calls read_tags.
OtherExtractStart(p) ==
    /\ other.wk[p].st = "spawned"
    /\ other' = [other EXCEPT !.wk[p].st = "extracting"]
    /\ UNCHANGED <<store, nextId>>
    /\ UNCHANGED OtherRunVars

\* read_tags returns Ok(track).
OtherExtractOk(p) ==
    /\ other.wk[p].st = "extracting"
    /\ p \in DOMAIN fs
    /\ other' = [other EXCEPT
                    !.wk[p].st = "sending",
                    !.wk[p].draft = <<read_tags(p, other.wk[p].meta[1])>>]
    /\ UNCHANGED <<store, nextId>>
    /\ UNCHANGED OtherRunVars

\* tx.send(track) and the writer's rx.recv and stack.push.
OtherDeliver(p) ==
    /\ other.wk[p].st = "sending"
    /\ other' = [other EXCEPT
                    !.wk[p].st = "sent",
                    !.stack = Append(@, other.wk[p].draft[1])]
    /\ UNCHANGED <<store, nextId>>
    /\ UNCHANGED OtherRunVars

\* rx.recv yields None; upsert_tracks of the batch, if any; Ok(ScanResult).
OtherFlush ==
    /\ other.pc = "drain"
    /\ \A p \in AllPaths : other.wk[p].st \in {"none", "sent"}
    /\ LET res == upsert_tracks(store, nextId, other.stack)
       IN  /\ store' = res.rows
           /\ nextId' = res.nid
    /\ other' = [other EXCEPT
                    !.pc = "done",
                    !.stack = <<>>,
                    !.written = {other.stack[i]["path"] :
                                    i \in 1..Len(other.stack)}]
    /\ UNCHANGED OtherRunVars

OtherRun ==
    \/ OtherRescan
    \/ OtherQuery
    \/ OtherDetect
    \/ \E p \in AllPaths : OtherExtractStart(p)
    \/ \E p \in AllPaths : OtherExtractOk(p)
    \/ \E p \in AllPaths : OtherDeliver(p)
    \/ OtherFlush

\* One run and one rescan request over the files of IncrPaths.
InitOverlap == InitWith(IncrPaths, MaxRuns - 1)

NextOverlap ==
    \/ Pipeline
    \/ OtherRun
    \/ \E p \in DOMAIN fs : Touch(p)

\* Two runs that may overlap, on a tree whose files may be written.
SpecOverlap == InitOverlap /\ [][NextOverlap]_vars

\* ------------------------------------------------------------------ walk of a tree
\* The variables of a run: all but those of the walk and of tag reading.
RunVars ==
    <<fs, store, nextId, runs, config, phase, walker, wk, available, chan,
      rxOpen, wpc, stack, tracks_processed, total_files, progress, upsertLog,
      fsChanges, seen, written, failed_batch, hist, prev, other>>

\* scan_music_library, the counting pass: count_files(path).
WalkCount ==
    /\ dir.pc = "init"
    /\ dir' = [dir EXCEPT !.pc = "counted",
                          !.count = count_files_in(dir.tree, Root)]
    /\ UNCHANGED <<RunVars, tagged, ranged>>

\* scan_dir_optimized: collect_file_paths(path, &mut file_paths).
WalkCollect ==
    /\ dir.pc = "counted"
    /\ dir' = [dir EXCEPT !.pc = "collected",
                          !.file_paths = collect_file_paths(dir.tree, Root)]
    /\ UNCHANGED <<RunVars, tagged, ranged>>

\* scan_dir: the fallback strategy walks the tree as it examines the files.
WalkScan ==
    /\ dir.pc = "counted"
    /\ dir' = [dir EXCEPT !.pc = "scanned",
                          !.file_paths = scan_dir(dir.tree, Root)]
    /\ UNCHANGED <<RunVars, tagged, ranged>>

InitWalk ==
    /\ InitRun({}, MaxRuns)
    /\ dir \in {[pc |-> "init", tree |-> t, count |-> 0, file_paths |-> {}] :
                   t \in Trees}
    /\ tagged = NoTags
    /\ ranged = NoRange

NextWalk == WalkCount \/ WalkCollect \/ WalkScan

\* The two passes of a run over any tree of MaxNodes entries.
SpecWalk == InitWalk /\ [][NextWalk]_vars

\* ------------------------------------------------------------------ reading tags
\* read_tags, the derivation of disc_number and track_number.
ReadNumbers ==
    /\ tagged.pc = "init"
    /\ tagged' = [tagged EXCEPT !.pc = "read",
                                !.disc_number = disc_number(tagged.tag),
                                !.track_number = track_number(tagged.tag)]
    /\ UNCHANGED <<RunVars, dir, ranged>>

Unread(t) ==
    [pc |-> "init", tag |-> t, disc_number |-> None, track_number |-> None]

InitTags ==
    /\ InitRun({}, MaxRuns)
    /\ dir = NoDir
    /\ ranged = NoRange
    /\ \/ \E d \in OptStrings, m \in AltOver(DiscKeys) :
              tagged = Unread(DiscTags(d, m))
       \/ \E n \in Structured, t \in OptStrings, m \in AltOver(TrackKeys) :
              tagged = Unread(TrackTags(n, t, m))

\* The numbers read from any tag set of at most MaxStr characters a value.
SpecTags == InitTags /\ [][ReadNumbers]_vars

\* ------------------------------------------------------------------ parsing ranges
\* play_track: parse_range(range_part, file_size).
ParseRange ==
    /\ ranged.pc = "init"
    /\ \E r \in parse_range(ranged.range_str, ranged.file_size) :
           ranged' = [ranged EXCEPT !.pc = "parsed", !.result = r]
    /\ UNCHANGED <<RunVars, dir, tagged>>

InitRange ==
    /\ InitRun({}, MaxRuns)
    /\ dir = NoDir
    /\ tagged = NoTags
    /\ \E s \in RangeStrings, size \in FileSizes :
           ranged = [pc |-> "init", range_str |-> s, file_size |-> size,
                     result |-> Unsatisfiable]

\* parse_range on any specifier of at most MaxStr characters and any file
\* size up to MaxSize.
SpecRange == InitRange /\ [][ParseRange]_vars

\* ================================================================== claims

\* C1: in the batched-query strategy at most Ceiling extractions are in
\* progress at any moment, however many files have changed.
C1_CeilingOptimized ==
    config.optimized => Cardinality(InFlight) <= Ceiling

\* C1 witness: every permit is held and a further changed file waits for one.
C1_AllPermitsHeld ==
    /\ config.optimized
    /\ Cardinality(InFlight) = Ceiling
    /\ available = 0
    /\ \E p \in AllPaths : wk[p].st = "spawned"

\* C2 as claimed: the ceiling holds in the full-preload strategy too.
C2_CeilingFallback ==
    ~config.optimized => Cardinality(InFlight) <= Ceiling

\* The store's row of a path.
RowOf(p) == CHOOSE r \in store : r["path"] = p

\* The walker's note of a candidate it compared in this run.
Note(p) == seen[p][1]

\* No record of the path reached the writer or the store in this run.
NotResent(p) == wk[p].st # "sent" /\ p \notin written

\* C3 as claimed: after a completed run, with no change of the tree or of a
\* timestamp after that run returned, the next run sends and upserts nothing
\* for the files the first run extracted.
C3_IdempotentAfterReturn ==
    (prev.phase = "Completed" /\ fs = prev.ret)
        => \A p \in prev.sent : NotResent(p)

\* C3 as amended: the same with no change since the first run started.
C3_IdempotentSinceStart ==
    (prev.phase = "Completed" /\ fs = prev.start)
        => \A p \in prev.sent : NotResent(p)

\* C3 witness: the second run has completed over unchanged files that the
\* first run extracted, and it examined them.
C3_SecondRunDone ==
    /\ prev.phase = "Completed"
    /\ fs = prev.start
    /\ phase = "Completed"
    /\ prev.sent # {}
    /\ \A p \in prev.sent : seen[p] # <<>> /\ NotResent(p)

\* The file's timestamp rose between the return of the previous run and the
\* start of this one.
RoseBetweenRuns(p) == hist.start[p].mtime > prev.ret[p].mtime

SameBetweenRuns(p) == hist.start[p].mtime = prev.ret[p].mtime

\* C4 as claimed: a run that follows another updates the record of every
\* file whose timestamp rose between the two runs and leaves alone the
\* record of every file whose timestamp stayed the same.
C4_IncrementalBetweenRuns ==
    (phase = "Completed" /\ prev.phase = "Completed")
        => \A p \in DOMAIN fs :
              /\ RoseBetweenRuns(p) => p \in written
              /\ SameBetweenRuns(p) => p \notin written

\* C4 as amended: for a file that has a record when the run examines it, a
\* timestamp above the record's gives an updated record once the run has
\* completed with the file's extraction succeeding, and a timestamp equal to
\* the record's leaves the record alone.
C4_IncrementalAgainstStore ==
    phase = "Completed"
        => \A p \in DOMAIN fs :
              (seen[p] # <<>> /\ Note(p).known)
                  => /\ (Note(p).modified > Note(p).stored /\ wk[p].st = "sent")
                          => /\ p \in written
                             /\ RowOf(p)["modified"] = Note(p).modified
                     /\ Note(p).modified = Note(p).stored
                          => /\ p \notin written
                             /\ RowOf(p)["modified"] = Note(p).stored

\* C4 witness: a completed run has updated the record of one file and left
\* the record of another, unchanged, file alone.
C4_OneUpdatedOneLeft ==
    /\ phase = "Completed"
    /\ \E p, q \in DOMAIN fs :
          /\ seen[p] # <<>> /\ Note(p).known
          /\ Note(p).modified > Note(p).stored
          /\ p \in written
          /\ seen[q] # <<>> /\ Note(q).known
          /\ Note(q).modified = Note(q).stored
          /\ q \notin written

\* C5 as claimed: a candidate the walker compares is handed to extraction
\* exactly when its timestamp is above the store's for its path or the path
\* has no row; with equal timestamps it is not extracted.
C5_ChangedIffNewerOrAbsent ==
    \A p \in AllPaths :
        seen[p] # <<>>
            => /\ Note(p).changed
                    <=> (~Note(p).known \/ Note(p).modified > Note(p).stored)
               /\ (wk[p].st # "none") <=> Note(p).changed

\* C6 as claimed: a candidate whose path has no row in the store is handed
\* to extraction whatever its timestamp.
C6_AbsentIsChanged ==
    \A p \in AllPaths :
        (seen[p] # <<>> /\ ~Note(p).known)
            => (Note(p).changed /\ wk[p].st # "none")

\* The tracks of the store as rows of the table of main.rs.
LegacyTable ==
    {[c \in LegacyColumns |-> IF c = "uuid" THEN r["id"] ELSE r[c]] :
        r \in store}

\* C7: the store never holds two rows of one path; a path that a successful
\* upsert of the run covered has exactly one row, whether it had one before
\* or not; ids are not shared; on a first run from the empty store only the
\* upserted paths have rows; upsert_track of main.rs, given the same tracks
\* and a record of the batch, leaves one row of the record's path and adds
\* none for another path.
C7_PathUnique ==
    /\ \A p \in AllPaths : Cardinality(RowsOf(p)) <= 1
    /\ \A p \in written : Cardinality(RowsOf(p)) = 1
    /\ \A r1, r2 \in store : r1["id"] = r2["id"] => r1 = r2
    /\ prev.phase = "Idle" => StorePaths = written
    /\ \A i \in 1..Len(stack) :
          LET after == upsert_track(LegacyTable, nextId, stack[i])
          IN  \A q \in AllPaths :
                  Cardinality({r \in after : r["path"] = q})
                      = IF q = stack[i]["path"] THEN 1
                        ELSE Cardinality(RowsOf(q))

\* C7 witness: an upsert of this run covered a path that already had a row,
\* and another upsert created the row of a path that had none.
C7_UpsertedExistingAndNew ==
    \E p, q \in written :
        /\ seen[p] # <<>> /\ Note(p).known
        /\ seen[q] # <<>> /\ ~Note(q).known

\* The columns the claim names as mutable.
C8_MutableColumns == Columns \ {"id", "path", "created"}

\* The step is a successful upsert_tracks of the batch in `stack`.
UpsertStep == wpc \in {"flush", "final"} /\ upsertLog' = Append(upsertLog, "ok")

\* C8: a successful batch upsert gives every mutable column of a row whose
\* path was already present the draft's value and leaves the row's path, id
\* and creation timestamp as they were.
C8_ConflictUpdate ==
    [][UpsertStep =>
          \A i \in 1..Len(stack) :
              \A old \in RowsOf(stack[i]["path"]) :
                  \E new \in store' :
                      /\ new["path"] = old["path"]
                      /\ new["id"] = old["id"]
                      /\ new["created"] = old["created"]
                      /\ \A c \in C8_MutableColumns : new[c] = stack[i][c]
      ]_vars

\* C8 witness: a row was updated from a draft whose creation timestamp
\* differs from the row's, and the row has the draft's modified timestamp.
C8_UpdatedRowKeepsCreated ==
    \E p \in written :
        /\ seen[p] # <<>> /\ Note(p).known
        /\ p \in DOMAIN fs
        /\ RowOf(p)["created"] # fs[p].created
        /\ RowOf(p)["modified"] = Note(p).modified
        /\ RowOf(p)["modified"] # Note(p).stored

\* C9: a failed upsert is the last upsert of its run, and the run is Failed.
C9_UpsertErrorFatal ==
    \A i \in 1..Len(upsertLog) :
        upsertLog[i] = "err" => (i = Len(upsertLog) /\ phase = "Failed")

\* C9 witness: an upsert has failed and the run is Failed while an
\* extraction task still holds a record for the writer.
C9_FailedWithWorkLeft ==
    /\ phase = "Failed"
    /\ upsertLog # <<>>
    /\ upsertLog[Len(upsertLog)] = "err"
    /\ \E p \in AllPaths : wk[p].st = "sending"

\* A draft is in the store: its path has a row with the draft's values.
Stored(d) ==
    \E r \in store :
        r["path"] = d["path"] /\ \A c \in UpdateColumns : r[c] = d[c]

\* C10 as claimed: after a failed upsert every record of the failing batch
\* is still held by the run (to be handed to the caller or upserted again)
\* or has reached the store.
C10_FailedBatchKept ==
    \A i \in 1..Len(failed_batch) :
        \/ failed_batch[i] \in Range(stack)
        \/ Stored(failed_batch[i])

\* The files the walker of the run has classified as changed.
Changed == {p \in AllPaths : seen[p] # <<>> /\ Note(p).changed}

\* The changed files whose extraction failed.
FailedExtraction == {p \in AllPaths : wk[p].st = "failed"}

\* The last upsert of the run failed.
StoreFailed == upsertLog # <<>> /\ upsertLog[Len(upsertLog)] = "err"

\* C11: a run is Failed only through a store error (a failed upsert, or the
\* failed preload of the full-preload strategy before any file is examined),
\* never through a file's extraction; a Completed run with n changed files
\* of which k failed extraction has persisted exactly the n - k others, each
\* with one row that carries the examined timestamp.
C11_FaultIsolation ==
    /\ phase = "Failed"
          => \/ StoreFailed
             \/ (~config.optimized /\ \A p \in AllPaths : seen[p] = <<>>)
    /\ phase = "Completed"
          => /\ FailedExtraction \subseteq Changed
             /\ written = Changed \ FailedExtraction
             /\ Cardinality(written)
                    = Cardinality(Changed) - Cardinality(FailedExtraction)
             /\ \A p \in written :
                    /\ Cardinality(RowsOf(p)) = 1
                    /\ RowOf(p)["modified"] = Note(p).modified

\* C11 witness: a run has completed with one changed file failed and another
\* changed file persisted.
C11_OneFailedOnePersisted ==
    /\ phase = "Completed"
    /\ FailedExtraction # {}
    /\ written # {}
    /\ Cardinality(Changed) = 2

BlockedInSend == {p \in AllPaths : wk[p].st = "sending"}

\* Extracted records not yet handed to the store.
Pending == Len(chan) + Cardinality(BlockedInSend) + Len(stack)

\* C13: in the batched-query strategy the channel never buffers more than
\* its capacity, no more workers than the ceiling hold a record, the batch
\* buffer never exceeds the batch size, and so the extracted records not yet
\* handed to the store never exceed capacity + ceiling + batch size, whatever
\* the writer is doing.
C13_Backpressure ==
    config.optimized
        => /\ Len(chan) <= ChanCap
           /\ Cardinality(BlockedInSend) <= Ceiling
           /\ Len(stack) <= config.batch_size
           /\ Pending <= ChanCap + Ceiling + config.batch_size

\* C13 witness: the writer is in a store call with a full batch, the channel
\* is full, and a worker holding a record is blocked in send.
C13_WorkerBlockedByFullChannel ==
    /\ config.optimized
    /\ wpc = "flush"
    /\ Len(stack) = config.batch_size
    /\ Len(chan) = ChanCap
    /\ BlockedInSend # {}

\* Some task of the run can take a step.
RunCanStep == ENABLED (WalkerStep \/ WriterStep \/ \E p \in AllPaths : WorkerStep(p))

\* C14: while a run is Running some task of it can always take a step (the
\* walker, a worker and the writer never all wait on each other), and under
\* fair scheduling with returning store calls and extractions a Running run
\* reaches Completed or Failed.
C14_RunTerminates ==
    /\ [](phase = "Running" => RunCanStep)
    /\ (phase = "Running") ~> (phase \in {"Completed", "Failed"})

\* C14 witness: a run with more changed files than permits and more than one
\* batch has completed.
C14_CompletedAfterContention ==
    /\ phase = "Completed"
    /\ config.optimized
    /\ Cardinality(written) > Ceiling
    /\ Len(upsertLog) > 1

\* The candidates the walker has passed: compared, or skipped on a failed
\* stat.
Examined == {p \in AllPaths : seen[p] # <<>>} \cup walker.unreadable

\* C15: the candidates of a chunk whose store query failed are skipped: none
\* of them is compared or handed to extraction; the walker still passes
\* every candidate of the other chunks; the changed ones among them whose
\* extraction succeeds are persisted by a Completed run; and a run of the
\* batched-query strategy is Failed only after a failed upsert.
C15_QueryFailureSkipsChunk ==
    /\ \A p \in walker.skipped : seen[p] = <<>> /\ wk[p].st = "none"
    /\ (config.optimized /\ walker.pc = "done")
          => Range(walker.file_paths) \ walker.skipped \subseteq Examined
    /\ phase = "Completed" => Changed \ FailedExtraction \subseteq written
    /\ (config.optimized /\ phase = "Failed") => StoreFailed

\* C15 witness: a run has completed after the query of one chunk failed,
\* with a file of another chunk persisted.
C15_SkippedOneChunkPersistedAnother ==
    /\ phase = "Completed"
    /\ walker.skipped # {}
    /\ written # {}

\* C16 as claimed: no path is being extracted by two workers at the same
\* time, also when a run started by a rescan request overlaps another run.
C16_NoConcurrentExtraction ==
    \A p \in AllPaths :
        ~(wk[p].st = "extracting" /\ other.wk[p].st = "extracting")

\* The modified timestamp of the draft the second run extracted for p.
OtherModified(p) == other.wk[p].meta[1].mtime

\* The latest of the states of p that the two runs extracted.
LatestExtracted(p) ==
    IF p \in written /\ p \in other.written
    THEN (IF Note(p).modified >= OtherModified(p)
          THEN Note(p).modified ELSE OtherModified(p))
    ELSE IF p \in written THEN Note(p).modified ELSE OtherModified(p)

\* C17 as claimed: once two overlapping runs have both completed, every
\* path either of them upserted has exactly one row, and the row carries
\* the latest state of the file that was extracted.
C17_OverlapHarmless ==
    (phase = "Completed" /\ other.pc = "done")
        => \A p \in written \cup other.written :
              /\ Cardinality(RowsOf(p)) = 1
              /\ RowOf(p)["modified"] = LatestExtracted(p)

\* The row is a whole draft of the run for its path: the examined
\* timestamp, and tag values that all come from one reading of the file.
WholeDraft(r) ==
    /\ seen[r["path"]] # <<>>
    /\ r["modified"] = Note(r["path"]).modified
    /\ r["extension"] = r["path"]
    /\ \A c, e \in ContentColumns : r[c] = r[e]

\* Every row is as it was before the run or the whole draft of a flushed
\* batch.
StoreValid ==
    \A r \in store :
        \/ r \in hist.store
        \/ r["path"] \in written /\ WholeDraft(r)

\* The file is new or newer than its row was when the run started.
ChangedSinceStore(p) ==
    \/ \A r \in hist.store : r["path"] # p
    \/ \E r \in hist.store : r["path"] = p /\ fs[p].mtime > r["modified"]

\* A run that starts now classifies the file as changed.
NextRunDetects(p) ==
    fs[p].mtime > (IF p \in StorePaths THEN RowOf(p)["modified"] ELSE Epoch)

\* C18 as claimed: at whatever point a run stops, the store is valid, and
\* every changed file whose draft was not flushed has no row or a stored
\* timestamp below its file timestamp, and is detected as changed by the
\* next run.
C18_StoppedRunLeavesStoreValid ==
    phase \in {"Running", "Failed"}
        => /\ StoreValid
           /\ \A p \in DOMAIN fs :
                 (ChangedSinceStore(p) /\ p \notin written)
                     => /\ \/ RowsOf(p) = {}
                           \/ RowOf(p)["modified"] < fs[p].mtime
                        /\ NextRunDetects(p)

\* C19: no step of a run deletes a record: every row of the store is still
\* there after the step, under the same path and id, also when its file is
\* no longer under the root.
C19_NeverDeletes ==
    [][\A r \in store :
          \E n \in store' : n["path"] = r["path"] /\ n["id"] = r["id"]]_vars

\* C19 witness: a run that started after a file had been deleted has
\* upserted another file and completed, and the deleted file's row is there.
C19_RowOfDeletedFileKept ==
    /\ phase = "Completed"
    /\ written # {}
    /\ \E p \in StorePaths : p \notin DOMAIN hist.start

\* The files that needed no processing, counted when the run completes.
Remaining ==
    IF total_files > tracks_processed THEN total_files - tracks_processed ELSE 0

RECURSIVE Listed(_, _)
Listed(t, d) ==
    /\ t.readable[d]
    /\ d = Root \/ (t.kind[d] = "dir" /\ Listed(t, t.parent[d]))

\* The regular files reachable from the root through readable directories.
ReachableFiles(t) ==
    {n \in Nodes : t.kind[n] = "file" /\ Listed(t, t.parent[n])}

\* The entries other than directories reachable in the same way.
ReachableEntries(t) ==
    {n \in Nodes : t.kind[n] \in {"file", "other"} /\ Listed(t, t.parent[n])}

\* C21: an unreadable directory is passed over and the walk goes on: the
\* counting pass counts every reachable entry that is not a directory (so
\* every reachable regular file), and the pipeline pass of either strategy
\* enumerates exactly the regular files reachable through readable
\* directories; both passes end with a result on every tree.
C21_UnreadableSkipped ==
    /\ dir.pc \in {"counted", "collected", "scanned"} =>
           /\ dir.count = Cardinality(ReachableEntries(dir.tree))
           /\ dir.count >= Cardinality(ReachableFiles(dir.tree))
    /\ dir.pc \in {"collected", "scanned"} =>
           dir.file_paths = ReachableFiles(dir.tree)
    /\ dir.pc = "init" => ENABLED WalkCount
    /\ dir.pc = "counted" => ENABLED WalkCollect /\ ENABLED WalkScan

\* C21 witness: the root holds an unreadable directory with a file inside
\* and, listed after it, a sibling file; the walk has collected the sibling
\* alone and counted one.
C21_SiblingOfUnreadableCollected ==
    /\ dir.pc = "collected"
    /\ dir.tree.readable[Root]
    /\ \E d, n, m \in Nodes :
           /\ dir.tree.kind[d] = "dir" /\ dir.tree.parent[d] = Root
           /\ ~dir.tree.readable[d]
           /\ dir.tree.kind[n] = "file" /\ dir.tree.parent[n] = d
           /\ dir.tree.kind[m] = "file" /\ dir.tree.parent[m] = Root
           /\ m > d
           /\ dir.file_paths = {m}
           /\ dir.count = 1

\* ------------------------------------------------------------------ C22
\* A non-empty run of digits.
IsNumber(s) == s # <<>> /\ \A i \in 1..Len(s) : s[i] \in Digits

\* C22: when tag.track() gives nothing and the TrackNumber item reads
\* "N/Total", N and Total numbers, the track number derived is N, whatever
\* the alternate keys hold.
C22_NumeratorOfCombined ==
    tagged.pc = "read" /\ tagged.tag.track = None
                       /\ tagged.tag.TrackNumber # None =>
        LET s == tagged.tag.TrackNumber[1]
        IN \A i \in 1..Len(s) :
               ( /\ s[i] = "/"
                 /\ IsNumber(SubSeq(s, 1, i - 1))
                 /\ IsNumber(SubSeq(s, i + 1, Len(s))) ) =>
                   tagged.track_number = Some(ValueOf(SubSeq(s, 1, i - 1)))

\* C22 witness: a tag set whose only track item is the string "3/12" has
\* been read, and the track number is 3.
C22_ThreeOfTwelve ==
    /\ tagged.pc = "read"
    /\ tagged.tag.track = None
    /\ tagged.tag.TrackNumber = Some(<<"3", "/", "1", "2">>)
    /\ tagged.tag.all_tags = NoAlt
    /\ tagged.track_number = Some(3)

\* ------------------------------------------------------------------ C23
\* The numbers a tag value yields: that of the digits that make up the
\* whole value or precede its first '/'.
Numerator(o) ==
    IF o = None THEN {}
    ELSE LET s == o[1]
         IN {ValueOf(SubSeq(s, 1, k)) : k \in
                {j \in 1..Len(s) : /\ IsNumber(SubSeq(s, 1, j))
                                   /\ j = Len(s) \/ s[j + 1] = "/"}}

\* The alternate disc key that is looked at: the first one present.
AltDisc(tag) ==
    IF \E i \in 1..3 : tag.all_tags[DiscKeys[i]] # None
    THEN tag.all_tags[DiscKeys[CHOOSE i \in 1..3 :
             /\ tag.all_tags[DiscKeys[i]] # None
             /\ \A j \in 1..(i - 1) : tag.all_tags[DiscKeys[j]] = None]]
    ELSE None

\* C23: the disc number is absent exactly when neither the DiscNumber item
\* (whole or before its '/') nor the alternate key yields a number, and
\* else it is the number of the first source that yields one, zero
\* included: zero is stored as zero and only a zero source gives zero.
C23_AbsentNotZero ==
    tagged.pc = "read" =>
        LET item == Numerator(tagged.tag.DiscNumber)
            alt == Numerator(AltDisc(tagged.tag))
        IN /\ item = {} /\ alt = {} => tagged.disc_number = None
           /\ item # {} => tagged.disc_number \in {Some(v) : v \in item}
           /\ item = {} /\ alt # {} =>
                  tagged.disc_number \in {Some(v) : v \in alt}
           /\ tagged.disc_number = Some(0) => 0 \in item \cup alt

\* C23 witness: a tag set whose disc item and alternate key both hold text
\* that is no number has been read, and the disc number is absent.
C23_NoSourceGivesAbsent ==
    /\ tagged.pc = "read"
    /\ tagged.tag.DiscNumber = Some(<<"x", "/", "2">>)
    /\ tagged.tag.all_tags["DISC"] = Some(<<"x">>)
    /\ tagged.disc_number = None

\* ------------------------------------------------------------------ C24
\* The writer issues an upsert, successful or not.
IssuesUpsert == Len(upsertLog') = Len(upsertLog) + 1

\* C24: while a run is under way the writer is about to upsert exactly
\* when its buffer holds batch_size records, or when the channel is closed
\* and drained and the buffer is not empty; the buffer never exceeds
\* batch_size; an upsert issued in the loop covers exactly batch_size
\* records, the one after the loop between 1 and batch_size, none is
\* empty, an upsert of fewer than batch_size records is the last of its
\* run, and every upsert leaves the buffer empty.
C24_FlushOnFullOrClosed ==
    /\ [](phase = "Running" =>
            /\ Len(stack) <= config.batch_size
            /\ wpc = "flush" <=> Len(stack) = config.batch_size
            /\ wpc = "final" =>
                   stack # <<>> /\ chan = <<>> /\ ~SendersAlive)
    /\ [][IssuesUpsert =>
            /\ phase = "Running" /\ wpc \in {"flush", "final"}
            /\ Len(stack) \in 1..config.batch_size
            /\ wpc = "flush" => Len(stack) = config.batch_size
            /\ Len(stack) < config.batch_size =>
                   wpc = "final" /\ phase' \in {"Completed", "Failed"}
            /\ stack' = <<>>]_vars

\* C24 witness: with a batch size of two, a run has upserted one full batch
\* and, the channel closed, is about to flush a last batch of one record.
C24_FullBatchThenPartial ==
    /\ phase = "Running"
    /\ config.batch_size = 2
    /\ upsertLog = <<"ok">>
    /\ Cardinality(written) = 2
    /\ wpc = "final"
    /\ Len(stack) = 1

\* ------------------------------------------------------------------ C25
\* The paths of the records in a sequence of records.
PathsOf(recs) == {recs[i]["path"] : i \in 1..Len(recs)}

\* The files whose extraction succeeded in this run: their task holds the
\* record, or has handed it on.
Extracted == {p \in AllPaths : wk[p].st \in {"sending", "sent", "rejected"}}

\* C25: in a run that ends Completed every record extracted successfully
\* was handed to the channel and is in an upsert batch that succeeded, with
\* nothing left in the channel or the buffer; and no successful upsert
\* holds a record twice or one that an earlier upsert of the run held, so
\* each record is in exactly one batch.
C25_ExactlyOneBatch ==
    /\ [](phase = "Completed" =>
            /\ \A p \in Extracted : wk[p].st = "sent"
            /\ written = Extracted
            /\ tracks_processed = Cardinality(Extracted)
            /\ chan = <<>> /\ stack = <<>>
            /\ \A i \in 1..Len(upsertLog) : upsertLog[i] = "ok")
    /\ [][UpsertStep =>
            /\ Cardinality(PathsOf(stack)) = Len(stack)
            /\ PathsOf(stack) \cap written = {}
            /\ written' = written \cup PathsOf(stack)]_vars

\* C25 witness: a run over three files has completed after two upserts, and
\* all three records extracted are written.
C25_ThreeRecordsTwoBatches ==
    /\ phase = "Completed"
    /\ Extracted = AllPaths
    /\ written = AllPaths
    /\ upsertLog = <<"ok", "ok">>
    /\ Cardinality(StorePaths) = NumPaths

\* ------------------------------------------------------------------ C26
\* The writer leaves its loop: recv() has returned None.
LeavesLoop == wpc = "recv" /\ (wpc' = "final" \/ phase' = "Completed")

\* C26: the writer leaves its loop, and so issues the flush of the partial
\* batch, only when the walker has passed the end of its list and no task
\* it spawned is still waiting, extracting or sending, and the channel is
\* drained; while the final flush is pending nothing of that changes.
C26_FinalFlushAfterAllEnded ==
    /\ [][LeavesLoop =>
            /\ walker.pc = "done"
            /\ walker.pos > Len(walker.file_paths)
            /\ \A p \in AllPaths : ~Active(p)
            /\ chan = <<>>]_vars
    /\ [](wpc = "final" =>
            /\ walker.pc = "done"
            /\ \A p \in AllPaths : ~Active(p)
            /\ chan = <<>>)

\* C26 witness: the final flush is pending over a partial batch, after the
\* walker finished and the tasks of three candidates ended, one of them in
\* failure.
C26_FinalFlushPending ==
    /\ wpc = "final"
    /\ stack # <<>>
    /\ Len(stack) < config.batch_size
    /\ walker.pc = "done"
    /\ \E p \in AllPaths : wk[p].st = "failed"
    /\ \E p \in AllPaths : wk[p].st = "sent"

\* ------------------------------------------------------------------ C27
\* The changes of phase a run makes: it starts from rest (Idle, or the end
\* of the run before), and ends from Running, or from rest in Failed when
\* the preload of the full-preload strategy fails.
PhaseOrder ==
    {<<"Idle", "Running">>, <<"Completed", "Running">>,
     <<"Failed", "Running">>, <<"Running", "Completed">>,
     <<"Running", "Failed">>, <<"Idle", "Failed">>,
     <<"Completed", "Failed">>}

\* Some detection, extraction or writing of the run is under way.
WorkUnderWay ==
    walker.pc # "done" \/ (\E p \in AllPaths : Active(p)) \/ wpc # "done"

\* C27: the phase changes only along PhaseOrder; whenever detection,
\* extraction or writing is under way, or a run has ended, the count of
\* the files found at the start of the run has been taken; draining (the
\* final flush) begins only from the walking phase, once walker and tasks
\* are done; and a run becomes Completed only from Running, with channel
\* and tasks done, either with an empty buffer or by the successful upsert
\* of the last partial batch, and with no failed upsert before.
C27_PhaseOrder ==
    /\ [][phase' # phase => <<phase, phase'>> \in PhaseOrder]_vars
    /\ [](WorkUnderWay \/ phase \in {"Completed", "Failed"} =>
            runs >= 1 /\ total_files = Cardinality(DOMAIN hist.start))
    /\ [][wpc' = "final" /\ wpc # "final" =>
            phase = "Running" /\ wpc = "recv" /\ Quiescent]_vars
    /\ [][phase' = "Completed" /\ phase # "Completed" =>
            /\ phase = "Running" /\ Quiescent /\ chan = <<>>
            /\ \/ wpc = "recv" /\ stack = <<>>
               \/ wpc = "final" /\ UpsertStep
            /\ stack' = <<>>
            /\ \A i \in 1..Len(upsertLog') : upsertLog'[i] = "ok"]_vars

\* C27 witness: a first run that counted two files has come to Completed
\* through a flush in the loop and the flush of a last partial batch.
C27_CompletedThroughFinalFlush ==
    /\ phase = "Completed"
    /\ runs = 1
    /\ total_files = 2
    /\ config.batch_size = 1
    /\ upsertLog = <<"ok", "ok">>
    /\ wpc = "done"

\* ------------------------------------------------------------------ C28
NoDuplicates(seq) ==
    \A i, j \in 1..Len(seq) : i # j => seq[i] # seq[j]

\* The paths of the records on their way from a task to the store.
Travelling == [i \in 1..(Len(chan) + Len(stack)) |->
                  IF i <= Len(chan) THEN chan[i]["path"]
                  ELSE stack[i - Len(chan)]["path"]]

\* File p is change-checked, or its extraction task is spawned, in this
\* step of a run under way.
ChecksPath(p) ==
    /\ runs' = runs
    /\ \/ seen'[p] # seen[p]
       \/ wk'[p].st = "spawned" /\ wk[p].st # "spawned"

\* The walker has gone through its list.
WalkedAll == runs >= 1 /\ walker.pc = "done" /\ phase # "Idle"

ContentNewerThanStamp(p) ==
    p \in StorePaths /\ RowOf(p)["title"] > RowOf(p)["modified"]

\* C29: the modified timestamp of a record, in its task, and in the store
\* once written, is the one the walker compared for that file in this run;
\* a successful upsert gives every path it updates a modified timestamp
\* above the stored one; and a row written with content newer than its
\* timestamp is classified changed when a later run checks its file.
C29_StampIsTheOneCompared ==
    /\ [](\A p \in AllPaths :
             /\ wk[p].draft # <<>> =>
                    wk[p].draft[1]["modified"] = Note(p).modified
             /\ p \in written => RowOf(p)["modified"] = Note(p).modified)
    /\ [][UpsertStep =>
            \A i \in 1..Len(stack) :
                stack[i]["path"] \in StorePaths =>
                    stack[i]["modified"] > RowOf(stack[i]["path"])["modified"]]_vars
    /\ [](\A p \in AllPaths :
             ( /\ seen[p] # <<>>
               /\ p \notin written
               /\ ContentNewerThanStamp(p) ) => Note(p).changed)

\* C29 witness: a file was written between detection and extraction in a
\* run that completed, so its row holds newer content than its timestamp;
\* the next run has checked the file and classified it changed.
C29_LateWriteDetectedNextRun ==
    /\ runs = 2
    /\ prev.phase = "Completed"
    /\ \E p \in AllPaths :
           /\ p \in prev.sent
           /\ p \notin written
           /\ ContentNewerThanStamp(p)
           /\ seen[p] # <<>>
           /\ Note(p).changed
           /\ Note(p).stored = RowOf(p)["modified"]

\* ------------------------------------------------------------------ C30
\* The timestamp the store held for p when the run started.
StoredAtStart(p) ==
    IF \E r \in hist.store : r["path"] = p
    THEN (CHOOSE r \in hist.store : r["path"] = p)["modified"]
    ELSE Epoch

\* The files that have changed, judged from the store and the files as
\* they were when the run started: a set that depends on no setting.
ExpectedChanged ==
    {p \in DOMAIN hist.start : hist.start[p].mtime > StoredAtStart(p)}

\* The files of this run for which an extraction task was spawned.
HandedToExtraction == {p \in AllPaths : wk[p].st # "none"}

\* C30: when a walker has gone through the files found at the start with no
\* lookup and no stat failing and the files are as they were then, the files
\* handed to extraction are those whose timestamp exceeds the one the
\* store held at the start (the epoch if none), whichever strategy ran and
\* whatever the batch width: both strategies hand over the same set.
C30_StrategiesAgree ==
    ( /\ WalkedAll
      /\ Range(walker.file_paths) = DOMAIN hist.start
      /\ walker.skipped = {} /\ walker.unreadable = {}
      /\ fs = hist.start ) => HandedToExtraction = ExpectedChanged

\* C30 witness: on a store that a first run filled, a second run of the
\* batched-query strategy with batches of one path has gone through two
\* files and handed over the one that changed.
C30_BatchedAgreesOnSecondRun ==
    /\ WalkedAll
    /\ runs = 2
    /\ config.optimized /\ config.path_batch_size = 1
    /\ walker.skipped = {} /\ walker.unreadable = {}
    /\ fs = hist.start
    /\ Cardinality(DOMAIN hist.start) = 2
    /\ Cardinality({r["path"] : r \in hist.store}) = 2
    /\ Cardinality(ExpectedChanged) = 1
    /\ HandedToExtraction = ExpectedChanged

\* ------------------------------------------------------------------ C31
\* C31 as claimed: on a tree that does not change, the total of the
\* counting pass equals the number of candidates the pipeline pass
\* enumerates.  count_files counts every entry that is not a directory,
\* the pipeline pass only regular files: an entry that is neither makes
\* the total exceed the candidates.
C31_CountIsCandidates ==
    dir.pc \in {"collected", "scanned"} =>
        dir.count = Cardinality(dir.file_paths)

\* ------------------------------------------------------------------ C32
\* The tasks that hold a permit: those past acquire() and not yet ended.
\* A task of the full-preload strategy acquires none.
PermitsHeld == IF config.optimized THEN InFlight ELSE {}

\* The task of p ends in this step.
TaskEnds(p) ==
    /\ wk[p].st \in {"extracting", "sending"}
    /\ wk'[p].st \in {"failed", "sent", "rejected"}

\* C32: in every state the permits held plus the permits available are
\* Ceiling; a task that holds a permit gives it back in the step that ends
\* it, whether its record was sent, its extraction failed or its send was
\* rejected; and once walker and tasks have ended all permits are
\* available.
C32_PermitsConserved ==
    /\ [](Cardinality(PermitsHeld) + available = Ceiling)
    /\ [](Quiescent => available = Ceiling)
    /\ [][\A p \in AllPaths :
            TaskEnds(p) /\ config.optimized => available' = available + 1]_vars

\* C32 witness: walker and tasks of a run of the batched-query strategy
\* have ended, one task with its record sent, one with its send rejected
\* after the run failed, and all permits are available.
C32_AllReturnedAfterRejection ==
    /\ config.optimized
    /\ phase = "Failed"
    /\ Quiescent
    /\ \E p \in AllPaths : wk[p].st = "sent"
    /\ \E p \in AllPaths : wk[p].st = "rejected"
    /\ available = Ceiling

\* ------------------------------------------------------------------ C33
\* The run has returned the error of a failed upsert.
FailedByUpsert ==
    phase = "Failed" /\ upsertLog # <<>> /\ upsertLog[Len(upsertLog)] = "err"

\* C33: after a run has returned Failed on an upsert error the channel is
\* closed, so a task that holds a record can always take its step (its
\* send is rejected, it does not wait for room); under fair scheduling
\* the walker and every task end; and no step taken while the run stays
\* Failed changes the store.
C33_DetachedTasksEnd ==
    /\ [](FailedByUpsert =>
            /\ ~rxOpen
            /\ \A p \in AllPaths :
                   wk[p].st = "sending" => ENABLED SendRejected(p))
    /\ FailedByUpsert ~> (FailedByUpsert /\ Quiescent)
    /\ [][FailedByUpsert /\ phase' = "Failed" =>
            store' = store /\ nextId' = nextId]_vars

\* C33 witness: the upsert of a batch of one record failed and nothing was
\* written; the walker and all tasks have ended since, two of the tasks on
\* a rejected send.
C33_EndedAfterFailure ==
    /\ FailedByUpsert
    /\ Quiescent
    /\ Len(failed_batch) = 1
    /\ Cardinality({p \in AllPaths : wk[p].st = "rejected"}) >= 2
    /\ written = {}

\* ------------------------------------------------------------------ C34
\* The run has returned an error without any upsert having failed: the
\* preload of the full-preload strategy failed.
FailedByPreload == phase = "Failed" /\ upsertLog = <<>>

\* C34: a run that failed on its preload is one of the full-preload
\* strategy; it has no walker and no task, then or later, no file of it
\* was compared or extracted, nothing was sent, received or upserted, and
\* the store is as it was when the run started; the step that fails
\* leaves the store alone.
C34_PreloadFailure ==
    /\ [](FailedByPreload =>
            /\ ~config.optimized
            /\ walker.pc = "done" /\ walker.file_paths = <<>>
            /\ \A p \in AllPaths : wk[p].st = "none" /\ seen[p] = <<>>
            /\ chan = <<>> /\ stack = <<>> /\ ~rxOpen /\ wpc = "done"
            /\ tracks_processed = 0 /\ written = {}
            /\ store = hist.store)
    /\ [][FailedByPreload' /\ runs' # runs =>
            store' = store /\ nextId' = nextId]_vars

\* C34 witness: a second run failed on its preload over a store the first
\* run filled, with a file that has changed since: the file is not
\* extracted and its row is as before.
C34_FailedBeforeWalking ==
    /\ FailedByPreload
    /\ runs = 2
    /\ prev.phase = "Completed"
    /\ store # {}
    /\ store = hist.store
    /\ \E p \in DOMAIN fs :
           /\ p \in StorePaths
           /\ fs[p].mtime > RowOf(p)["modified"]
           /\ wk[p].st = "none"

\* ------------------------------------------------------------------ C35
\* The specifier is "-N", N a number.
SuffixOf(s) == SubSeq(s, 2, Len(s))
IsSuffixRange(s) == Len(s) >= 2 /\ s[1] = "-" /\ IsNumber(SuffixOf(s))

\* The specifier is "S-", S a number.
OpenOf(s) == SubSeq(s, 1, Len(s) - 1)
IsOpenRange(s) == Len(s) >= 2 /\ s[Len(s)] = "-" /\ IsNumber(OpenOf(s))

\* C35 as claimed: "-N" with 0 < N <= file_size gives the last N bytes,
\* (file_size - N, file_size - 1); "S-" with S < file_size gives
\* (S, file_size - 1); every Ok result has start <= end < file_size.
\* parse_range takes the N of "-N" for the end position as well, so the
\* last N bytes come out only when N is 1 with a size of 2, or the size.
C35_RangeResults ==
    ranged.pc = "parsed" =>
        LET s == ranged.range_str
            size == ranged.file_size
            r == ranged.result
        IN /\ ( /\ IsSuffixRange(s)
                /\ ValueOf(SuffixOf(s)) > 0
                /\ ValueOf(SuffixOf(s)) <= size ) =>
                  r = OkRange(size - ValueOf(SuffixOf(s)), size - 1)
           /\ ( IsOpenRange(s) /\ ValueOf(OpenOf(s)) < size ) =>
                  r = OkRange(ValueOf(OpenOf(s)), size - 1)
           /\ r.tag = "Ok" => r.start <= r.end /\ r.end < size

====
